---- MODULE Spec2Model ----
(***************************************************************************)
(* Model of hosted_feature_layer_QA.py: the four QA checks (null,          *)
(* duplicate, coded-value domain, missing geometry), the module-level      *)
(* issue list they append to, and the CSV report written from it.          *)
(***************************************************************************)
EXTENDS Integers, Sequences, FiniteSets, TLC

\* ------------------------------------------------------------------ bounds
\* Rows returned by the attribute query.
MaxRecords == 2

\* Features returned by the geometry query.
MaxFeatures == 2

\* Calls of main() within one interpreter.
MaxRuns == 2

\* ------------------------------------------------------------------ values
\* Python None / pandas NaN in a cell, a value or a geometry.
None == "None"

\* OBJECTID of the i-th row of the layer.
ObjectId(i) == <<"1", "2", "3", "4", "5">>[i]

\* f["domain"] of a field descriptor: a coded-value domain, a range domain
\* (which has no "codedValues" key), or None (encoded as a record so that the
\* three compare).
CodedDomain ==
    [type |-> "codedValue",
     codedValues |-> <<[name |-> "Bee", code |-> "B"], [name |-> "Cee", code |-> "C"]>>]

RangeDomain == [type |-> "range"]

NoneDomain == [type |-> None]

\* The descriptors of Name (a field that may lack the "domain" key) and City.
NameFields ==
    { [name |-> "Name"],
      [name |-> "Name", domain |-> CodedDomain],
      [name |-> "Name", domain |-> RangeDomain] }

CityFields ==
    { [name |-> "City", domain |-> NoneDomain],
      [name |-> "City", domain |-> CodedDomain] }

\* layer.properties.fields: OBJECTID, Name and City, in this order.
Catalogs ==
    { << [name |-> "OBJECTID", domain |-> NoneDomain], n, c >> :
         n \in NameFields, c \in CityFields }

\* The values a cell of each column can hold.
Cells(col) ==
    CASE col = "Name" -> {None, "A", "B"}
      [] col = "City" -> {None, "A"}
      [] OTHER -> {}

\* The column sets the attribute query can return for the catalog above.
ColumnSets == { {"OBJECTID", "Name", "City"}, {"OBJECTID", "City"} }

\* The attribute rows over a column set, without their OBJECTID.
Attributes(cols) ==
    { r \in [cols \ {"OBJECTID"} -> {None, "A", "B"}] :
        \A c \in DOMAIN r : r[c] \in Cells(c) }

\* feature.sdf: the data frames (sequences of rows) over a column set.
Frames(cols) ==
    UNION { { [i \in 1..n |->
                 [c \in cols |-> IF c = "OBJECTID" THEN ObjectId(i) ELSE raw[i][c]]]
              : raw \in [1..n -> Attributes(cols)] }
            : n \in 0..MaxRecords }

\* layer.query(return_geometry=True).features: geometry is None or a point.
Point == "point"

FeatureSets ==
    UNION { { [i \in 1..n |->
                 [attributes |-> [OBJECTID |-> ObjectId(i)], geometry |-> g[i]]]
              : g \in [1..n -> {None, Point}] }
            : n \in 0..MaxFeatures }

\* ------------------------------------------------------------------ state
VARIABLES
    fields,       \* layer.properties.fields
    columns,      \* sdf.columns
    sdf,          \* the rows of the attribute query (module level, line 90)
    layer,        \* the features the layer returns to the geometry query
    field_list,   \* module level, lines 96 and 101-102
    qa_results,   \* module level, line 97
    pc,           \* the statement of main() that runs next
    error,        \* the exception that ended main(), if any
    written,      \* the CSV files written by to_csv, in order
    runs          \* completed or started calls of main()

vars == <<fields, columns, sdf, layer, field_list, qa_results, pc, error, written, runs>>

inputs == <<fields, columns, sdf, layer, field_list>>

NoError == <<>>

KeyError(key) == <<"KeyError", key>>

\* ------------------------------------------------------------------ helpers
\* add_issue's dictionary.
Issue(issue_type, field, oid, value, notes) ==
    [IssueType |-> issue_type, FieldName |-> field, ObjectID |-> oid,
     Value |-> value, Notes |-> notes]

\* notes=None
NoNotes == <<>>

\* pandas isna / notna on a cell.
IsNa(v) == v = None

\* Mutant of Duplicated: keep="first", which leaves the first occurrence
\* unmarked.
DuplicatedKeepFirst(df, field, i) ==
    \E j \in 1..(i - 1) : df[j][field] = df[i][field]

\* Series.duplicated(keep=False) for row i: some other row has the same cell
\* (NaN cells count as equal to one another).
Duplicated(df, field, i) ==
    \E j \in 1..Len(df) : j # i /\ df[j][field] = df[i][field]

RECURSIVE Unique(_)
\* Series.unique(): the distinct values in order of first appearance.
Unique(s) ==
    IF s = <<>> THEN <<>>
    ELSE LET init == Unique(SubSeq(s, 1, Len(s) - 1))
             last == s[Len(s)]
         IN IF \E k \in 1..Len(init) : init[k] = last THEN init
            ELSE Append(init, last)

RECURSIVE Concat(_)
\* The concatenation of a sequence of sequences.
Concat(ss) ==
    IF ss = <<>> THEN <<>> ELSE Head(ss) \o Concat(Tail(ss))

\* ------------------------------------------------------------------ null_check
\* Lines 123-130 for one field.
NullIssues(df, field) ==
    LET null_rows == SelectSeq(df, LAMBDA row : IsNa(row[field]))
    IN [k \in 1..Len(null_rows) |->
           Issue("NULL Value", field, null_rows[k]["OBJECTID"], None, NoNotes)]

RECURSIVE NullScan(_, _, _, _)
\* The loop of line 122 from the i-th field on: the issues appended and the
\* exception raised by df[field] for a field that is no column.
NullScan(df, cols, flds, i) ==
    IF i > Len(flds) THEN [issues |-> <<>>, error |-> NoError]
    ELSE IF flds[i] \notin cols THEN [issues |-> <<>>, error |-> KeyError(flds[i])]
    ELSE LET rest == NullScan(df, cols, flds, i + 1)
         IN [issues |-> NullIssues(df, flds[i]) \o rest.issues, error |-> rest.error]

null_check(df, cols, flds) == NullScan(df, cols, flds, 1)

\* ------------------------------------------------------------------ duplicate_check
\* The literal list of line 141.
Exempt == {"City", "State", "Zip_Code", "Last_Updated", "QA_Status"}

\* Mutant of IsExempt: the list spells City in lower case.
IsExemptMisspelt(field) ==
    field \in {"city", "State", "Zip_Code", "Last_Updated", "QA_Status"}

\* Line 141.
IsExempt(field) == field \in Exempt

\* Lines 142-155 for one field.
DuplicateIssues(df, field) ==
    LET idx == SelectSeq([i \in 1..Len(df) |-> i],
                         LAMBDA i : Duplicated(df, field, i) /\ ~IsNa(df[i][field]))
        duplicates == [k \in 1..Len(idx) |-> df[idx[k]]]
        vals == Unique([k \in 1..Len(duplicates) |-> duplicates[k][field]])
        group(val) == SelectSeq(duplicates, LAMBDA row : row[field] = val)
        issues(val) ==
            [k \in 1..Len(group(val)) |->
                Issue("Duplicate Value", field, group(val)[k]["OBJECTID"], val,
                      <<"Duplicate of value", val>>)]
    IN Concat([k \in 1..Len(vals) |-> issues(vals[k])])

RECURSIVE DuplicateScan(_, _, _, _)
\* The loop of line 139 from the i-th field on.
DuplicateScan(df, cols, flds, i) ==
    IF i > Len(flds) THEN [issues |-> <<>>, error |-> NoError]
    ELSE IF IsExempt(flds[i]) THEN DuplicateScan(df, cols, flds, i + 1)
    ELSE IF flds[i] \notin cols THEN [issues |-> <<>>, error |-> KeyError(flds[i])]
    ELSE LET rest == DuplicateScan(df, cols, flds, i + 1)
         IN [issues |-> DuplicateIssues(df, flds[i]) \o rest.issues, error |-> rest.error]

duplicate_check(df, cols, flds) == DuplicateScan(df, cols, flds, 1)

\* ------------------------------------------------------------------ domain_check
\* "domain" in f and f["domain"]
HasDomain(f) == "domain" \in DOMAIN f /\ f.domain # NoneDomain

\* Lines 165-166: the descriptors of the fields with a domain, in catalog order.
DomainFields(fl) == SelectSeq(fl, HasDomain)

\* Line 172 for one descriptor.
ValidCodes(f) ==
    [k \in 1..Len(f.domain.codedValues) |-> f.domain.codedValues[k].code]

\* Line 172 raises KeyError for a domain without "codedValues".
HasCodes(f) == "codedValues" \in DOMAIN f.domain

\* Series.isin(valid_codes) on a cell.
IsIn(v, codes) == \E k \in 1..Len(codes) : codes[k] = v

\* Lines 176-187 for one field.
DomainIssues(df, field, valid_codes) ==
    LET invalid_rows ==
            SelectSeq(df, LAMBDA row : ~IsIn(row[field], valid_codes) /\ ~IsNa(row[field]))
    IN [k \in 1..Len(invalid_rows) |->
           Issue("Invalid Domain Value", field, invalid_rows[k]["OBJECTID"],
                 invalid_rows[k][field], <<"Not in valid domain list">> \o valid_codes)]

RECURSIVE DomainScan(_, _, _, _)
\* The loop of line 175 from the i-th entry of domain_map on.
DomainScan(df, cols, dfs, i) ==
    IF i > Len(dfs) THEN [issues |-> <<>>, error |-> NoError]
    ELSE IF dfs[i].name \notin cols THEN [issues |-> <<>>, error |-> KeyError(dfs[i].name)]
    ELSE LET rest == DomainScan(df, cols, dfs, i + 1)
         IN [issues |-> DomainIssues(df, dfs[i].name, ValidCodes(dfs[i])) \o rest.issues,
             error |-> rest.error]

\* domain_map is built for every domain field (lines 169-172) before any
\* field is checked, so a domain without codes ends the check with no issue.
domain_check(df, cols, fl) ==
    LET dfs == DomainFields(fl)
    IN IF \E k \in 1..Len(dfs) : ~HasCodes(dfs[k])
       THEN [issues |-> <<>>, error |-> KeyError("codedValues")]
       ELSE DomainScan(df, cols, dfs, 1)

\* ------------------------------------------------------------------ geometry_check
\* Mutant of NoGeometry: the test is "if geometry".
NoGeometryInverted(f) == f.geometry # None

\* not geometry
NoGeometry(f) == f.geometry = None

\* Lines 202-207.
geometry_check(features) ==
    LET missing == SelectSeq(features, NoGeometry)
    IN [k \in 1..Len(missing) |->
           Issue("Missing Geometry", "SHAPE", missing[k].attributes["OBJECTID"], None,
                 <<"Null geometry">>)]

\* ------------------------------------------------------------------ create_qa_report
\* One line of the CSV: the columns in the dictionary's order, None as the
\* empty cell.
CsvRow(issue) ==
    << issue.IssueType, issue.FieldName, issue.ObjectID,
       IF issue.Value = None THEN "" ELSE issue.Value, issue.Notes >>

\* pd.DataFrame(results).to_csv
ToCsv(results) == [k \in 1..Len(results) |-> CsvRow(results[k])]

\* Mutant of create_qa_report: the file is written whether or not there are
\* issues.
create_qa_report_always(results, files) ==
    Append(files, [k \in 1..Len(results) |->
                      << results[k].IssueType, results[k].FieldName, results[k].ObjectID,
                         IF results[k].Value = None THEN "" ELSE results[k].Value,
                         results[k].Notes >>])

\* Lines 224-236: the files on disk after the call, given those before it.
create_qa_report(results, files) ==
    IF Len(results) = 0 THEN files ELSE Append(files, ToCsv(results))

\* ------------------------------------------------------------------ actions
Init ==
    /\ fields \in Catalogs
    /\ columns \in ColumnSets
    /\ sdf \in Frames(columns)
    /\ layer \in FeatureSets
    /\ field_list = [k \in 1..Len(fields) |-> fields[k].name]
    /\ qa_results = <<>>
    /\ pc = "idle"
    /\ error = NoError
    /\ written = <<>>
    /\ runs = 0

\* main() is called and confirm_layer_details() returns: the prompt repeats
\* until the answer is y (continue) or n (return from main).
Confirm ==
    /\ pc = "idle"
    /\ runs < MaxRuns
    /\ runs' = runs + 1
    /\ \E choice \in {"y", "n"} :
         pc' = IF choice = "y" THEN "null_check" ELSE "idle"
    /\ UNCHANGED <<inputs, qa_results, error, written>>

\* A check that appends `res.issues` and returns, or raises `res.error`.
Step(res, next) ==
    /\ qa_results' = qa_results \o res.issues
    /\ error' = res.error
    /\ pc' = IF res.error = NoError THEN next ELSE "aborted"
    /\ UNCHANGED <<inputs, written, runs>>

NullCheck ==
    /\ pc = "null_check"
    /\ Step(null_check(sdf, columns, field_list), "duplicate_check")

DuplicateCheck ==
    /\ pc = "duplicate_check"
    /\ Step(duplicate_check(sdf, columns, field_list), "domain_check")

DomainCheck ==
    /\ pc = "domain_check"
    /\ Step(domain_check(sdf, columns, fields), "geometry_check")

GeometryCheck ==
    /\ pc = "geometry_check"
    /\ Step([issues |-> geometry_check(layer), error |-> NoError], "create_qa_report")

\* create_qa_report(qa_results), after which main() returns.
CreateQaReport ==
    /\ pc = "create_qa_report"
    /\ written' = create_qa_report(qa_results, written)
    /\ pc' = "idle"
    /\ UNCHANGED <<inputs, qa_results, error, runs>>

Next ==
    \/ Confirm
    \/ NullCheck
    \/ DuplicateCheck
    \/ DomainCheck
    \/ GeometryCheck
    \/ CreateQaReport

Spec == Init /\ [][Next]_vars

\* ------------------------------------------------------------------ properties
\* The issues one step appends to qa_results.
Emitted == SubSeq(qa_results', Len(qa_results) + 1, Len(qa_results'))

\* How many entries of a sequence satisfy a test.
Count(seq, test(_)) == Cardinality({k \in 1..Len(seq) : test(seq[k])})

\* The position of a name in field_list, and of an OBJECTID among the rows.
FieldIndex(name) == CHOOSE k \in 1..Len(field_list) : field_list[k] = name

RowIndex(oid) == CHOOSE i \in 1..5 : ObjectId(i) = oid

\* The order in which main() calls the checks.
Rank(issue_type) ==
    CASE issue_type = "NULL Value" -> 1
      [] issue_type = "Duplicate Value" -> 2
      [] issue_type = "Invalid Domain Value" -> 3
      [] issue_type = "Missing Geometry" -> 4

\* C1: a second run of main() on the same, unchanged input produces the same
\* ordered issue collection as the first: the report exported by the second
\* run equals the one exported by the first, with nothing carried over.
C1_SecondRunIdentical ==
    Len(written) >= 2 => written[2] = written[1]

\* C2: in the collection a run hands to the report, every NULL Value issue
\* precedes every Duplicate Value issue, which precedes every Invalid Domain
\* Value issue, which precedes every Missing Geometry issue.
C2_RuleOrder ==
    pc = "create_qa_report" =>
        \A k, l \in 1..Len(qa_results) :
            k < l => Rank(qa_results[k].IssueType) <= Rank(qa_results[l].IssueType)

\* The order of C2 restricted to the first call of main() in the interpreter.
FirstRunRuleOrder ==
    (pc = "create_qa_report" /\ runs = 1) =>
        \A k, l \in 1..Len(qa_results) :
            k < l => Rank(qa_results[k].IssueType) <= Rank(qa_results[l].IssueType)

\* C3: a checked field that is no column of the record set is skipped: it
\* never ends the run with an exception.
C3_UnknownFieldSkipped ==
    \A k \in 1..Len(field_list) :
        field_list[k] \notin columns => error # KeyError(field_list[k])

\* C4: a field whose domain descriptor has no code list is treated as
\* domain-less: it never ends the run with an exception.
C4_DomainWithoutCodesSkipped ==
    (\E k \in 1..Len(fields) :
        /\ "domain" \in DOMAIN fields[k]
        /\ fields[k].domain # NoneDomain
        /\ "codedValues" \notin DOMAIN fields[k].domain)
    => error # KeyError("codedValues")

\* C5: whenever duplicate_check runs, for every checked, non-exempt field F and
\* every non-null value v it has appended one Duplicate Value issue per row
\* holding v in F if two or more rows hold v, and none if a single row holds
\* v; it has appended nothing else, so null cells produce no issue.
C5_DuplicateRule ==
    [][ pc = "duplicate_check" =>
        LET em == Emitted
            checked == {field_list[k] : k \in 1..Len(field_list)} \ Exempt
            holders(F, v) == {i \in 1..Len(sdf) : sdf[i][F] = v}
        IN /\ \A k \in 1..Len(em) :
                /\ em[k].IssueType = "Duplicate Value"
                /\ em[k].FieldName \in checked
                /\ em[k].Value # None
           /\ \A F \in checked : \A v \in {sdf[i][F] : i \in 1..Len(sdf)} \ {None} :
                \A i \in 1..Len(sdf) :
                    Count(em, LAMBDA e : e.FieldName = F /\ e.Value = v
                                         /\ e.ObjectID = ObjectId(i))
                    = IF i \in holders(F, v) /\ Cardinality(holders(F, v)) >= 2
                      THEN 1 ELSE 0
           /\ \A F \in checked : \A v \in {sdf[i][F] : i \in 1..Len(sdf)} \ {None} :
                Count(em, LAMBDA e : e.FieldName = F /\ e.Value = v)
                = IF Cardinality(holders(F, v)) >= 2
                  THEN Cardinality(holders(F, v)) ELSE 0
      ]_vars

\* Two rows share a non-null Name and duplicate_check has reported both.
C5_Witness ==
    /\ pc = "domain_check"
    /\ runs = 1
    /\ Count(qa_results, LAMBDA e : e.IssueType = "Duplicate Value"
                                    /\ e.FieldName = "Name") = 2

\* C6: the collection never holds a Duplicate Value issue for a field of the
\* exemption list, however often a value repeats in it, while the null cells
\* and the invalid codes of such a field are still reported.
C6_ExemptFields ==
    /\ \A k \in 1..Len(qa_results) :
          qa_results[k].IssueType = "Duplicate Value"
              => qa_results[k].FieldName \notin Exempt
    /\ pc \in {"duplicate_check", "domain_check", "geometry_check", "create_qa_report"} =>
          \A F \in Exempt \cap columns : \A i \in 1..Len(sdf) :
              sdf[i][F] = None =>
                  \E k \in 1..Len(qa_results) :
                      /\ qa_results[k].IssueType = "NULL Value"
                      /\ qa_results[k].FieldName = F
                      /\ qa_results[k].ObjectID = ObjectId(i)
    /\ pc \in {"geometry_check", "create_qa_report"} =>
          \A f \in {fields[k] : k \in 1..Len(fields)} : \A i \in 1..Len(sdf) :
              (/\ f.name \in Exempt
               /\ "domain" \in DOMAIN f
               /\ f.domain # NoneDomain
               /\ sdf[i][f.name] # None
               /\ \A c \in 1..Len(f.domain.codedValues) :
                     f.domain.codedValues[c].code # sdf[i][f.name])
              => \E k \in 1..Len(qa_results) :
                      /\ qa_results[k].IssueType = "Invalid Domain Value"
                      /\ qa_results[k].FieldName = f.name
                      /\ qa_results[k].ObjectID = ObjectId(i)

\* Two rows repeat a City, one row has no City, and the run has passed the
\* duplicate and the domain check, the latter reporting a City.
C6_Witness ==
    /\ pc = "create_qa_report"
    /\ runs = 1
    /\ \E i, j \in 1..Len(sdf) : i # j /\ sdf[i]["City"] = "A" /\ sdf[j]["City"] = "A"
    /\ \E k \in 1..Len(qa_results) :
          qa_results[k].IssueType = "Invalid Domain Value" /\ qa_results[k].FieldName = "City"

\* What C7 says of the issues one call of domain_check appends: for every
\* field with a non-empty domain and every row exactly one Invalid Domain
\* Value issue, with the row's id and value, if the value is non-null and not
\* among the domain's codes, and none otherwise; for a field without a
\* domain, none.
DomainRuleHolds ==
    LET em == Emitted
        hasDomain(f) == "domain" \in DOMAIN f /\ f.domain # NoneDomain
        hasCodes(f) == "codedValues" \in DOMAIN f.domain
        codes(f) == {f.domain.codedValues[c].code : c \in 1..Len(f.domain.codedValues)}
    IN /\ \A k \in 1..Len(em) : em[k].IssueType = "Invalid Domain Value"
       /\ \A n \in 1..Len(fields) :
            LET f == fields[n]
            IN IF ~hasDomain(f) THEN Count(em, LAMBDA e : e.FieldName = f.name) = 0
               ELSE hasCodes(f) =>
                    \A i \in 1..Len(sdf) :
                       LET v == sdf[i][f.name]
                       IN /\ Count(em, LAMBDA e : e.FieldName = f.name
                                                  /\ e.ObjectID = ObjectId(i))
                             = IF v # None /\ v \notin codes(f) THEN 1 ELSE 0
                          /\ \A k \in 1..Len(em) :
                                (em[k].FieldName = f.name /\ em[k].ObjectID = ObjectId(i))
                                    => em[k].Value = v

\* C7: whenever domain_check runs, it appends exactly the Invalid Domain
\* Value issues of DomainRuleHolds: one per row and field with a coded domain
\* whose value is non-null and not among the codes, none for a valid or null
\* value, none for a field without a domain.
C7_DomainRule ==
    [][ pc = "domain_check" => DomainRuleHolds ]_vars

\* The property of C7 on the calls of domain_check that return.
DomainRuleOnReturn ==
    [][ (pc = "domain_check" /\ pc' = "geometry_check") => DomainRuleHolds ]_vars

\* Name has a coded domain, one row holds a valid code, another an invalid
\* one, and domain_check has returned, reporting the latter.
DomainRuleReturned ==
    /\ pc = "geometry_check"
    /\ runs = 1
    /\ \E i, j \in 1..Len(sdf) : sdf[i]["Name"] = "B" /\ sdf[j]["Name"] = "A"
    /\ Count(qa_results, LAMBDA e : e.IssueType = "Invalid Domain Value"
                                    /\ e.FieldName = "Name") = 1

\* What C8 says of the issues one call of null_check appends: for every
\* checked field F that is a column and every row r exactly one NULL Value
\* issue with F, r's id and no value if r's cell for F is null, and none
\* otherwise, in field order and, within a field, in row order.
NullRuleHolds ==
    LET em == Emitted
        checked == {n \in 1..Len(field_list) : field_list[n] \in columns}
    IN /\ \A k \in 1..Len(em) :
            /\ em[k].IssueType = "NULL Value"
            /\ em[k].Value = None
       /\ \A n \in checked : \A i \in 1..Len(sdf) :
            Count(em, LAMBDA e : e.FieldName = field_list[n]
                                 /\ e.ObjectID = ObjectId(i))
            = IF sdf[i][field_list[n]] = None THEN 1 ELSE 0
       /\ Len(em) = Cardinality({<<n, i>> \in checked \X (1..Len(sdf)) :
                                    sdf[i][field_list[n]] = None})
       /\ \A k, l \in 1..Len(em) :
            k < l =>
                \/ FieldIndex(em[k].FieldName) < FieldIndex(em[l].FieldName)
                \/ /\ em[k].FieldName = em[l].FieldName
                   /\ RowIndex(em[k].ObjectID) < RowIndex(em[l].ObjectID)

\* C8: whenever null_check runs, it appends exactly the NULL Value issues of
\* NullRuleHolds: one per checked field and row whose cell is null, none
\* otherwise, field-major and in row order within each field.
C8_NullRule ==
    [][ pc = "null_check" => NullRuleHolds ]_vars

\* The property of C8 on the calls of null_check that return.
NullRuleOnReturn ==
    [][ (pc = "null_check" /\ pc' = "duplicate_check") => NullRuleHolds ]_vars

\* One row has a null Name, another row a Name, and null_check has returned,
\* reporting the first.
NullRuleReturned ==
    /\ pc = "duplicate_check"
    /\ runs = 1
    /\ \E i, j \in 1..Len(sdf) : sdf[i]["Name"] = None /\ sdf[j]["Name"] # None
    /\ \E k \in 1..Len(qa_results) :
          qa_results[k].IssueType = "NULL Value" /\ qa_results[k].FieldName = "Name"

\* C9: geometry_check appends, for every feature of the geometry query,
\* exactly one Missing Geometry issue with the field name SHAPE, the
\* feature's id and no value if its geometry is null, and none if it has a
\* geometry; the issues are in feature order.
C9_GeometryRule ==
    [][ pc = "geometry_check" =>
        LET em == Emitted
        IN /\ \A k \in 1..Len(em) :
                /\ em[k].IssueType = "Missing Geometry"
                /\ em[k].FieldName = "SHAPE"
                /\ em[k].Value = None
           /\ \A i \in 1..Len(layer) :
                Count(em, LAMBDA e : e.ObjectID = layer[i].attributes["OBJECTID"])
                = IF layer[i].geometry = None THEN 1 ELSE 0
           /\ Len(em) = Cardinality({i \in 1..Len(layer) : layer[i].geometry = None})
           /\ \A k, l \in 1..Len(em) :
                k < l => RowIndex(em[k].ObjectID) < RowIndex(em[l].ObjectID)
      ]_vars

\* One feature has a geometry, another has none, and geometry_check has
\* reported the second.
C9_Witness ==
    /\ pc = "create_qa_report"
    /\ runs = 1
    /\ \E i, j \in 1..Len(layer) : layer[i].geometry = None /\ layer[j].geometry = Point
    /\ Count(qa_results, LAMBDA e : e.IssueType = "Missing Geometry") = 1

\* C10: create_qa_report writes a file exactly when the collection is not
\* empty, and then one file with one line per issue in collection order;
\* with no rows and no features the collection stays empty and nothing is
\* ever written.
C10_Report ==
    /\ []((sdf = <<>> /\ layer = <<>>) => (qa_results = <<>> /\ written = <<>>))
    /\ [][ pc = "create_qa_report" =>
            IF qa_results = <<>>
            THEN written' = written
            ELSE /\ Len(written') = Len(written) + 1
                 /\ SubSeq(written', 1, Len(written)) = written
                 /\ LET csv == written'[Len(written')]
                    IN /\ Len(csv) = Len(qa_results)
                       /\ \A k \in 1..Len(csv) :
                             /\ csv[k][1] = qa_results[k].IssueType
                             /\ csv[k][2] = qa_results[k].FieldName
                             /\ csv[k][3] = qa_results[k].ObjectID
         ]_vars

\* A first run has found two or more issues and written them to one file.
C10_Witness ==
    /\ pc = "idle"
    /\ runs = 1
    /\ Len(written) = 1
    /\ Len(written[1]) = Len(qa_results)
    /\ Len(qa_results) >= 2

====
